---------------------------- MODULE Spec2Model ----------------------------
(***************************************************************************)
(* Model of mysql/method.py: Operation._session_scope, Operation._my_insert*)
(* and Operation.to_mysql, run against a transactional MySQL target table  *)
(* and a connection-local scratch (temporary) table.                       *)
(*                                                                         *)
(* One call of to_mysql is a walk of pc through the statements of the      *)
(* method; every statement sent to the database may succeed or raise.      *)
(* `target` is the committed content of the target table, `txTarget` the   *)
(* content seen inside the session's open transaction.                     *)
(***************************************************************************)
EXTENDS Integers, Sequences, FiniteSets, TLC

(* ----------------------------- bounds --------------------------------- *)
\* longest row batch (DataFrame) handed to to_mysql
MaxBatch == 3
\* chunksize=1000 of df.to_sql, scaled down so that a batch spans chunks
ChunkSize == 2

\* values of the unique-index column k and of the plain column v; 0 is NULL
Keys == {1, 2}
Vals == {1, 2}
NULL == 0

(* ------------------------- schema descriptors -------------------------- *)
Col(n, p) == [name |-> n, pk |-> p]

\* the documented shape: a single auto-increment primary key
SchemaOnePk == << Col("id", TRUE), Col("k", FALSE), Col("v", FALSE) >>
\* a scratch class that declares no primary key
SchemaNoPk == << Col("k", FALSE), Col("v", FALSE) >>
\* a scratch class that declares a composite primary key
SchemaTwoPk == << Col("id", TRUE), Col("id2", TRUE), Col("k", FALSE), Col("v", FALSE) >>

Schemas == {SchemaOnePk, SchemaNoPk, SchemaTwoPk}

\* column sets a DataFrame may carry: all columns, v omitted, an unknown column
DfColumnSets == { {"k", "v"}, {"k"}, {"k", "v", "x"} }

\* values accepted for if_record_exists, and one that is not
Policies == {"update", "ignore", "replace"}

(* ------------------------------ helpers -------------------------------- *)
\* list.remove(x): drop the first element equal to x (x is known to be present)
RECURSIVE Remove(_, _)
Remove(s, x) ==
    IF s = << >> THEN << >>
    ELSE IF Head(s) = x THEN Tail(s)
    ELSE << Head(s) >> \o Remove(Tail(s), x)

RECURSIVE RemoveAll(_, _)
RemoveAll(s, xs) ==
    IF xs = << >> THEN s ELSE RemoveAll(Remove(s, Head(xs)), Tail(xs))

RECURSIVE SelectSeqOf(_, _)
SelectSeqOf(s, keep) ==
    IF s = << >> THEN << >>
    ELSE IF Head(s) \in keep THEN << Head(s) >> \o SelectSeqOf(Tail(s), keep)
    ELSE SelectSeqOf(Tail(s), keep)

Names(s) == [i \in 1..Len(s) |-> s[i].name]

\* Column.key: the attribute key of a column, its name unless the class
\* declares another one
Alias == [id |-> "id_attr", id2 |-> "id2_attr", k |-> "k_attr", v |-> "v_attr"]
KeyOf(c) == IF "aliased" \in DOMAIN c /\ c.aliased THEN Alias[c.name] ELSE c.name
KeysL(s) == [i \in 1..Len(s) |-> KeyOf(s[i])]
Range(s) == {s[i] : i \in 1..Len(s)}

(* -------------------- _my_insert: introspection ------------------------ *)
\* faulty variant: only the first primary-key column is taken
PkListFirst(sch) ==
    IF SelectSeqOf(sch, {c \in Range(sch) : c.pk}) = << >> THEN << >>
    ELSE << Head(SelectSeqOf(sch, {c \in Range(sch) : c.pk})) >>

\* pk_list = [k for k in temp_inspect.primary_key]
PkList(sch) == SelectSeqOf(sch, {c \in Range(sch) : c.pk})
\* bare_pk_list = [k.name for k in temp_inspect.primary_key]
BarePkList(sch) == Names(PkList(sch))
\* column_list after "for k in pk_list: column_list.remove(k)"
ColumnList(sch) == RemoveAll(sch, PkList(sch))
\* faulty variant: the primary key is taken to be the first declared column
BareColumnListTail(sch) == Tail(KeysL(sch))

\* bare_column_list = [c.key for c in temp_inspect.columns]
\* after "for k in bare_pk_list: bare_column_list.remove(k)"
BareColumnList(sch) == RemoveAll(KeysL(sch), BarePkList(sch))

\* bare_column_list.remove(k) raises ValueError when k is not in the list
RemoveRaises(sch) ==
    \E i \in 1..Len(BarePkList(sch)) :
        BarePkList(sch)[i] \notin Range(KeysL(sch))

(* ------------------- _my_insert: the merge statement ------------------- *)
\* insert(target_table).from_select(bare_column_list, session.query(*column_list))
\* followed by on_duplicate_key_update(update_dict) or prefix_with('IGNORE')
MyInsertStmt(sch, pol) ==
    [ insertCols |-> BareColumnList(sch),
      selectCols |-> Names(ColumnList(sch)),
      mode       |-> pol,
      updateCols |-> IF pol = "update" THEN Range(BareColumnList(sch)) ELSE {} ]

\* columns of the target table that a statement can name (its auto-increment
\* id is assigned by the engine and is never part of a column list)
TargetCols == {"k", "v"}

\* value of column c in scratch row s as the SELECT returns it
ScratchVal(s, c) == IF c \in DOMAIN s THEN s[c] ELSE NULL

\* the row the INSERT ... SELECT offers to the target for scratch row s:
\* the i-th selected value goes to the i-th insert column, the rest is unset
NewRow(stmt, s) ==
    [ c \in TargetCols |->
        IF \E i \in 1..Len(stmt.insertCols) : stmt.insertCols[i] = c
        THEN ScratchVal(s, stmt.selectCols[
                 CHOOSE i \in 1..Len(stmt.insertCols) : stmt.insertCols[i] = c])
        ELSE NULL ]

\* positions of target rows that collide with row r on the unique index
\* (NULL never collides; without a unique index nothing collides)
Dups(t, r, uniq) == { i \in 1..Len(t) : uniq /\ r.k # NULL /\ t[i].k = r.k }

\* faulty variant: REPLACE semantics, the colliding row is overwritten
InsertReplaceRow(t, r, uniq) ==
    IF Dups(t, r, uniq) # {}
    THEN [t EXCEPT ![CHOOSE j \in Dups(t, r, uniq) : TRUE] = r]
    ELSE Append(t, r)

\* faulty variant: plain INSERT without the IGNORE prefix taking effect
InsertAlwaysRow(t, r, uniq) == Append(t, r)

\* INSERT IGNORE: a colliding row is dropped, the existing row stays
InsertIgnoreRow(t, r, uniq) ==
    IF Dups(t, r, uniq) # {} THEN t ELSE Append(t, r)

\* faulty variant: the update clause is lost, a colliding row keeps its old values
UpdateRowNoClause(t, r, uniq, updateCols) ==
    IF Dups(t, r, uniq) # {} THEN t ELSE Append(t, r)

\* faulty variant: a column the offered row leaves unset keeps its old value
UpdateRowKeepUnset(t, r, uniq, updateCols) ==
    IF Dups(t, r, uniq) # {}
    THEN LET i == CHOOSE j \in Dups(t, r, uniq) : TRUE
         IN  [t EXCEPT ![i] = [c \in TargetCols |->
                                 IF c \in updateCols /\ r[c] # NULL
                                 THEN r[c] ELSE @[c]]]
    ELSE Append(t, r)

\* ON DUPLICATE KEY UPDATE col = VALUES(col) for every col of update_dict
UpdateRow(t, r, uniq, updateCols) ==
    IF Dups(t, r, uniq) # {}
    THEN LET i == CHOOSE j \in Dups(t, r, uniq) : TRUE
         IN  [t EXCEPT ![i] = [c \in TargetCols |->
                                 IF c \in updateCols THEN r[c] ELSE @[c]]]
    ELSE Append(t, r)

\* session.execute(stmt): the scratch rows are merged one by one in load order
RECURSIVE Execute(_, _, _, _)
Execute(stmt, t, rows, uniq) ==
    IF rows = << >> THEN t
    ELSE LET r == NewRow(stmt, Head(rows))
             t1 == IF stmt.mode = "update"
                   THEN UpdateRow(t, r, uniq, stmt.updateCols)
                   ELSE InsertIgnoreRow(t, r, uniq)
         IN  Execute(stmt, t1, Tail(rows), uniq)

(* ------------------------------ state ---------------------------------- *)
VARIABLES
    policy,        \* if_record_exists
    schema,        \* columns of temp_table
    hasUnique,     \* the target table has a unique index on k
    dfCols,        \* columns of df
    df,            \* rows of df
    target,        \* committed rows of the target table
    txTarget,      \* rows of the target table inside the session's transaction
    scratch,       \* rows of the scratch table
    scratchExists, \* the scratch table exists on the session's connection
    sessionOpen,   \* the session holds a connection
    pc,            \* statement of to_mysql / _session_scope to run next
    loaded,        \* number of df rows already sent by to_sql
    err,           \* exception currently propagating ("none" when there is none)
    raised,        \* first exception raised inside the scope
    log,           \* operations performed on the session, in order
    before,        \* committed target rows when the current call started
    run,           \* 1 for the first call, 2 for its identical repetition
    prevOk,        \* the previous call returned normally
    preexisting,   \* a table of the scratch table's name is already there
    executed,      \* number of session.execute(stmt) calls of _my_insert
    stmt,          \* the statement built by _my_insert run on its own
    inv,           \* concurrent uses of _session_scope: thread, option, position
    registry,      \* per scoped_session registry: the session of each thread
    created,       \* number of sessions Connector.get_session has made
    rTimes,        \* Retry: retry_times
    plan,          \* Retry: what the successive calls of wrapped do
    rpc,           \* Retry: statement of __call__ to run next
    iter,          \* Retry: iterations of the for loop started
    calls,         \* Retry: calls of wrapped made
    rResult,       \* Retry: what __call__ gave its caller
    spc,           \* Singleton: position of each calling thread in __call__
    lockHolder,    \* Singleton: thread holding self.lock, 0 when free
    instance,      \* Singleton: self._instance[wrapped], 0 when absent
    built,         \* Singleton: number of times wrapped() has run
    ret,           \* Singleton: instance returned to each thread, 0 when none
    xLen,          \* better_to_excel: len(df)
    xRps,          \* better_to_excel: rows_per_sheet
    xSheetName,    \* better_to_excel: 'sheet_name' in kwargs
    xExists,       \* better_to_excel: os.path.exists(pathname)
    xMode,         \* better_to_excel: mode
    xpc,           \* better_to_excel: statement to run next
    xTotal,        \* better_to_excel: total_sheet_num
    xi,            \* better_to_excel: i of the for loop
    sheets,        \* better_to_excel: sheets handed to the writer, in order
    xErr           \* better_to_excel: exception raised, "none" when none

inputs == << policy, schema, hasUnique, dfCols, df, preexisting >>

\* state of to_mysql and of the database it works on
mainVars == << inputs, target, txTarget, scratch, scratchExists, sessionOpen,
               pc, loaded, err, raised, log, before, run, prevOk, executed >>

stmtVars == << stmt >>
concVars == << inv, registry, created >>
retryVars == << rTimes, plan, rpc, iter, calls, rResult >>
singVars == << spc, lockHolder, instance, built, ret >>

\* state of the other components, which to_mysql never touches
excelVars == << xLen, xRps, xSheetName, xExists, xMode, xpc, xTotal, xi,
               sheets, xErr >>
aux == << stmtVars, concVars, retryVars, singVars, excelVars >>

vars == << mainVars, aux >>

Op(name, ok) == [op |-> name, ok |-> ok]

\* no statement has been built
NoStmt == [insertCols |-> << >>, selectCols |-> << >>, mode |-> "none",
           updateCols |-> {}]

(* bounds of the other components *)
\* concurrent uses of the scoped session
NumInv == 3
\* largest retry_times
MaxRetry == 3
\* threads calling a Singleton-decorated class
NumCallers == 3

Invs == 1..NumInv
Threads == {1, 2}
Callers == 1..NumCallers

StmtIdle == stmt = NoStmt

ConcIdle ==
    /\ inv = [i \in Invs |-> [thread |-> 1, scoped |-> TRUE, pc |-> "idle",
                               sess |-> 0, used |-> {}, scratchOn |-> {}]]
    /\ registry = [i \in Invs |-> [t \in Threads |-> 0]]
    /\ created = 0

RetryIdle ==
    /\ rTimes = 0
    /\ plan = << >>
    /\ rpc = "idle"
    /\ iter = 0
    /\ calls = 0
    /\ rResult = [kind |-> "pending", call |-> 0]

SingIdle ==
    /\ spc = [t \in Callers |-> "idle"]
    /\ lockHolder = 0
    /\ instance = 0
    /\ built = 0
    /\ ret = [t \in Callers |-> 0]

ExcelIdle ==
    /\ xLen = 0
    /\ xRps = 1
    /\ xSheetName = FALSE
    /\ xExists = FALSE
    /\ xMode = "a"
    /\ xpc = "idle"
    /\ xTotal = 0
    /\ xi = 0
    /\ sheets = << >>
    /\ xErr = "none"

\* the other components at rest
AuxIdle == StmtIdle /\ ConcIdle /\ RetryIdle /\ SingIdle /\ ExcelIdle

\* rows a DataFrame with columns cols can hold
DfRows(cols) ==
    [k : Keys, v : IF "v" \in cols THEN Vals ELSE {NULL}]

Batches(cols) ==
    UNION { [1..n -> DfRows(cols)] : n \in 0..MaxBatch }

\* target tables that exist before the call: at most one row per key
InitTargets ==
    { << >>, << [k |-> 1, v |-> 1] >>, << [k |-> 2, v |-> 1] >>,
      << [k |-> 1, v |-> 1], [k |-> 2, v |-> 1] >> }

Init ==
    /\ policy \in Policies
    /\ schema \in Schemas
    /\ hasUnique \in BOOLEAN
    /\ dfCols \in DfColumnSets
    /\ df \in Batches(dfCols)
    /\ target \in InitTargets
    /\ txTarget = target
    /\ scratch = << >>
    /\ scratchExists = FALSE
    /\ sessionOpen = FALSE
    /\ pc = "call"
    /\ loaded = 0
    /\ err = "none"
    /\ raised = "none"
    /\ log = << >>
    /\ before = target
    /\ run = 1
    /\ prevOk = FALSE
    /\ preexisting \in BOOLEAN
    /\ executed = 0
    /\ AuxIdle

(* --------------------------- to_mysql ---------------------------------- *)
Raise(e) ==
    /\ err' = e
    /\ raised' = IF raised = "none" THEN e ELSE raised

\* if if_record_exists not in ('update', 'ignore'): raise ValueError
CheckPolicy ==
    /\ pc = "call"
    /\ IF policy \notin {"update", "ignore"}
       THEN /\ pc' = "done"
            /\ err' = "ValueError"
            /\ UNCHANGED raised
       ELSE /\ pc' = "enter"
            /\ UNCHANGED << err, raised >>
    /\ UNCHANGED << aux, inputs, executed, target, txTarget, scratch, scratchExists,
                    sessionOpen, loaded, log, before, run, prevOk >>

\* with self._session_scope() as session: the session is obtained, try: yield
EnterScope ==
    /\ pc = "enter"
    /\ sessionOpen' = TRUE
    /\ log' = Append(log, Op("open", TRUE))
    /\ pc' = "create"
    /\ UNCHANGED << aux, inputs, executed, target, txTarget, scratch, scratchExists, loaded,
                    err, raised, before, run, prevOk >>

\* faulty variant: checkfirst=True, an existing table is taken as the scratch table
CreateCollidesCheckFirst(pre) == FALSE

\* checkfirst=False: CREATE TABLE is sent whatever exists, and the database
\* rejects it when a table of that name is already there
CreateCollides(pre) == pre

\* temp_table.__table__.create(bind=session.connection(), checkfirst=False)
CreateScratch ==
    /\ pc = "create"
    /\ \E ok \in BOOLEAN :
        /\ log' = Append(log, Op("create", ok /\ ~CreateCollides(preexisting)))
        /\ IF ok /\ ~CreateCollides(preexisting)
           THEN /\ scratchExists' = TRUE
                /\ pc' = "load"
                /\ UNCHANGED << err, raised >>
           ELSE /\ Raise(IF CreateCollides(preexisting)
                         THEN "TableExists" ELSE "CreateError")
                /\ pc' = "except"
                /\ UNCHANGED scratchExists
    /\ UNCHANGED << aux, inputs, executed, target, txTarget, scratch, sessionOpen, loaded,
                    before, run, prevOk >>

\* the row of the scratch table made from DataFrame row r: columns the
\* DataFrame does not carry are left unset
ScratchRow(r, cols) ==
    [c \in {"k", "v"} |-> IF c \in cols THEN r[c] ELSE NULL]

\* faulty variant: chunksize is ignored, the rest of df goes in one INSERT
ChunkEndAll(start, n) == n

\* rows start_i .. end_i of the next chunk of df.to_sql(..., chunksize)
ChunkEnd(start, n) == IF start + ChunkSize < n THEN start + ChunkSize ELSE n
Chunk(rows, start) ==
    [i \in 1..(ChunkEnd(start, Len(rows)) - start) |-> rows[start + i]]

\* faulty variant: columns unknown to the scratch table are silently dropped
ChunkAcceptedAny(cols, sch) == TRUE

\* the INSERT of a chunk names every DataFrame column; a column the scratch
\* table does not have makes the statement fail
ChunkAccepted(cols, sch) == cols \subseteq Range(Names(sch))

\* df.to_sql(temp_table.__tablename__, con=session.connection(),
\*           if_exists='append', index=False, chunksize=1000): one chunk
LoadChunk ==
    /\ pc = "load"
    /\ loaded < Len(df)
    /\ \E ok \in BOOLEAN :
        IF ~ChunkAccepted(dfCols, schema) \/ ~ok
        THEN /\ log' = Append(log, Op("chunk", FALSE))
             /\ Raise(IF ChunkAccepted(dfCols, schema)
                      THEN "LoadError" ELSE "UnknownColumn")
             /\ pc' = "load_except"
             /\ UNCHANGED << scratch, loaded >>
        ELSE /\ log' = Append(log, Op("chunk", TRUE))
             /\ scratch' = scratch \o
                    [i \in 1..Len(Chunk(df, loaded)) |->
                        ScratchRow(Chunk(df, loaded)[i], dfCols)]
             /\ loaded' = ChunkEnd(loaded, Len(df))
             /\ pc' = "load"
             /\ UNCHANGED << err, raised >>
    /\ UNCHANGED << aux, inputs, executed, target, txTarget, scratchExists, sessionOpen,
                    before, run, prevOk >>

\* faulty variant: the merge may start before every chunk has been sent
LoadDoneEarly ==
    /\ pc = "load"
    /\ pc' = "merge"
    /\ UNCHANGED << aux, inputs, executed, target, txTarget, scratch, scratchExists,
                    sessionOpen, loaded, err, raised, log, before, run, prevOk >>

\* to_sql returns (an empty DataFrame sends no chunk at all): else-branch
LoadDone ==
    /\ pc = "load"
    /\ loaded >= Len(df)
    /\ pc' = "merge"
    /\ UNCHANGED << aux, inputs, executed, target, txTarget, scratch, scratchExists,
                    sessionOpen, loaded, err, raised, log, before, run, prevOk >>

\* faulty variant: "except Exception: pass", the failed load is swallowed
LoadSwallow ==
    /\ pc = "load_except"
    /\ pc' = "merge"
    /\ err' = "none"
    /\ UNCHANGED << aux, inputs, executed, target, txTarget, scratch, scratchExists,
                    sessionOpen, loaded, raised, log, before, run, prevOk >>

\* except Exception as e: raise e
LoadReraise ==
    /\ pc = "load_except"
    /\ pc' = "except"
    /\ UNCHANGED << aux, inputs, executed, target, txTarget, scratch, scratchExists,
                    sessionOpen, loaded, err, raised, log, before, run, prevOk >>

\* faulty variant: any other value is treated as 'ignore'
PolicyRejectedNever(pol) == FALSE

\* else: raise ValueError (if_record_exists is neither 'update' nor 'ignore')
PolicyRejected(pol) == pol \notin {"update", "ignore"}

\* self._my_insert(...) inside the scope: build the statement,
\* session.execute(stmt)
MyInsert ==
    /\ pc = "merge"
    /\ IF PolicyRejected(policy)
       THEN /\ Raise("ValueError")
            /\ pc' = "except"
            /\ UNCHANGED << log, txTarget, executed >>
       ELSE \E ok \in BOOLEAN :
            /\ log' = Append(log, Op("merge", ok))
            /\ executed' = executed + 1
            /\ IF ok
               THEN /\ txTarget' = Execute(MyInsertStmt(schema, policy), txTarget,
                                           scratch, hasUnique)
                    /\ pc' = "commit"
                    /\ UNCHANGED << err, raised >>
               ELSE /\ Raise("MergeError")
                    /\ pc' = "except"
                    /\ UNCHANGED txTarget
    /\ UNCHANGED << aux, inputs, target, scratch, scratchExists, sessionOpen,
                    loaded, before, run, prevOk >>

\* _my_insert called by a caller of its own, on a session and a scratch table
\* (holding the rows of df) that the caller provides
DirectMyInsert ==
    /\ pc = "call"
    /\ run = 1
    /\ pc' = "returned"
    /\ IF PolicyRejected(policy)
       THEN /\ err' = "ValueError"
            /\ UNCHANGED << txTarget, executed >>
       ELSE \E ok \in BOOLEAN :
            /\ executed' = executed + 1
            /\ IF ok
               THEN /\ txTarget' = Execute(MyInsertStmt(schema, policy), txTarget,
                          [i \in 1..Len(df) |-> ScratchRow(df[i], dfCols)],
                          hasUnique)
                    /\ UNCHANGED err
               ELSE /\ err' = "MergeError"
                    /\ UNCHANGED txTarget
    /\ UNCHANGED << aux, inputs, target, scratch, scratchExists, sessionOpen,
                    loaded, raised, log, before, run, prevOk >>

\* KeyboardInterrupt / SystemExit delivered inside the body of the scope:
\* not an Exception, so neither except clause handles it
Interrupt ==
    /\ pc \in {"create", "load", "merge"}
    /\ Raise("KeyboardInterrupt")
    /\ pc' = "finally"
    /\ UNCHANGED << aux, inputs, executed, target, txTarget, scratch, scratchExists,
                    sessionOpen, loaded, log, before, run, prevOk >>

(* ------------------------- _session_scope ------------------------------ *)
\* faulty variant: the scope forgets to commit
CommitForgotten ==
    /\ pc = "commit"
    /\ pc' = "finally"
    /\ UNCHANGED << aux, inputs, executed, target, txTarget, scratch, scratchExists,
                    sessionOpen, loaded, err, raised, log, before, run, prevOk >>

\* session.commit()
Commit ==
    /\ pc = "commit"
    /\ \E ok \in BOOLEAN :
        /\ log' = Append(log, Op("commit", ok))
        /\ IF ok
           THEN /\ target' = txTarget
                /\ pc' = "finally"
                /\ UNCHANGED << err, raised >>
           ELSE /\ Raise("CommitError")
                /\ pc' = "except"
                /\ UNCHANGED target
    /\ UNCHANGED << aux, inputs, executed, txTarget, scratch, scratchExists, sessionOpen,
                    loaded, before, run, prevOk >>

\* faulty variant: "except Exception as e: raise e" without the rollback
RollbackForgotten ==
    /\ pc = "except"
    /\ pc' = "finally"
    /\ UNCHANGED << aux, inputs, executed, target, txTarget, scratch, scratchExists,
                    sessionOpen, loaded, err, raised, log, before, run, prevOk >>

\* except Exception as e: session.rollback(); raise e
Rollback ==
    /\ pc = "except"
    /\ \E ok \in BOOLEAN :
        /\ log' = Append(log, Op("rollback", ok))
        /\ IF ok
           THEN /\ txTarget' = target
                /\ UNCHANGED << err, raised >>
           ELSE /\ err' = "RollbackError"
                /\ UNCHANGED << txTarget, raised >>
    /\ pc' = "finally"
    /\ UNCHANGED << aux, inputs, executed, target, scratch, scratchExists, sessionOpen,
                    loaded, before, run, prevOk >>

\* faulty variant: close() at the end of the try block instead of in finally
CloseOnSuccessOnly ==
    /\ pc = "finally"
    /\ IF err = "none"
       THEN /\ log' = Append(log, Op("close", TRUE))
            /\ sessionOpen' = FALSE
            /\ txTarget' = target
            /\ scratch' = << >>
            /\ scratchExists' = FALSE
       ELSE UNCHANGED << log, sessionOpen, txTarget, scratch, scratchExists >>
    /\ pc' = "done"
    /\ UNCHANGED << aux, inputs, executed, target, loaded, err, raised, before, run, prevOk >>

\* finally: session.close(); the connection is released, what the transaction
\* had not committed is discarded and the scratch table goes with the connection
\* (Session.close() releases its resources without raising)
Close ==
    /\ pc = "finally"
    /\ log' = Append(log, Op("close", TRUE))
    /\ sessionOpen' = FALSE
    /\ txTarget' = target
    /\ scratch' = << >>
    /\ scratchExists' = FALSE
    /\ pc' = "done"
    /\ UNCHANGED << aux, inputs, executed, target, loaded, err, raised, before, run, prevOk >>

\* the caller submits the identical operation a second time
Rerun ==
    /\ pc = "done"
    /\ run = 1
    /\ run' = 2
    /\ prevOk' = (err = "none")
    /\ before' = target
    /\ pc' = "call"
    /\ loaded' = 0
    /\ err' = "none"
    /\ raised' = "none"
    /\ log' = << >>
    /\ executed' = 0
    /\ UNCHANGED << aux, inputs, target, txTarget, scratch, scratchExists, sessionOpen >>

Next ==
    \/ CheckPolicy
    \/ EnterScope
    \/ CreateScratch
    \/ LoadChunk
    \/ LoadDone
    \/ LoadReraise
    \/ MyInsert
    \/ DirectMyInsert
    \/ Interrupt
    \/ Commit
    \/ Rollback
    \/ Close
    \/ Rerun

Spec == Init /\ [][Next]_vars

(* ------------- to_mysql on batches that span several chunks ------------- *)
\* longest batch of the chunking runs
MaxRows == 5

\* a batch of n rows; consecutive rows differ
LongBatch(n) == [i \in 1..n |-> [k |-> 1 + (i % 2), v |-> 1 + ((i \div 2) % 2)]]

InitLoad ==
    /\ policy \in {"update", "ignore"}
    /\ schema = SchemaOnePk
    /\ hasUnique \in BOOLEAN
    /\ dfCols = {"k", "v"}
    /\ df \in {LongBatch(n) : n \in 0..MaxRows}
    /\ target \in InitTargets
    /\ txTarget = target
    /\ scratch = << >>
    /\ scratchExists = FALSE
    /\ sessionOpen = FALSE
    /\ pc = "call"
    /\ loaded = 0
    /\ err = "none"
    /\ raised = "none"
    /\ log = << >>
    /\ before = target
    /\ run = 1
    /\ prevOk = FALSE
    /\ preexisting = FALSE
    /\ executed = 0
    /\ AuxIdle

SpecLoad == InitLoad /\ [][Next]_vars

(* ------------------ _my_insert as a statement builder ------------------- *)
\* most columns a scratch class declares
MaxCols == 3
ColNames == {"id", "id2", "k", "v"}

\* scratch classes: distinct columns in any order, any of them primary key,
\* any of them mapped under a key that differs from its name
ColDescs == [name : ColNames, pk : BOOLEAN, aliased : BOOLEAN]
AnySchemas ==
    { sch \in UNION { [1..n -> ColDescs] : n \in 1..MaxCols } :
        \A i, j \in DOMAIN sch : i # j => sch[i].name # sch[j].name }

\* to_mysql at rest
MainIdle ==
    /\ hasUnique = TRUE
    /\ dfCols = {"k", "v"}
    /\ df = << >>
    /\ preexisting = FALSE
    /\ target = << >>
    /\ txTarget = << >>
    /\ scratch = << >>
    /\ scratchExists = FALSE
    /\ sessionOpen = FALSE
    /\ loaded = 0
    /\ err = "none"
    /\ raised = "none"
    /\ log = << >>
    /\ before = << >>
    /\ run = 1
    /\ prevOk = FALSE
    /\ executed = 0

InitStmt ==
    /\ policy \in Policies
    /\ schema \in AnySchemas
    /\ pc = "build"
    /\ MainIdle
    /\ AuxIdle

\* lines 80-107 of _my_insert: the lists are derived, then the statement is
\* built for the policy, or ValueError is raised
BuildStmt ==
    /\ pc = "build"
    /\ pc' = "built"
    /\ IF RemoveRaises(schema) \/ PolicyRejected(policy)
       THEN /\ err' = "ValueError"
            /\ UNCHANGED stmt
       ELSE /\ stmt' = MyInsertStmt(schema, policy)
            /\ UNCHANGED err
    /\ UNCHANGED << inputs, target, txTarget, scratch, scratchExists,
                    sessionOpen, loaded, raised, log, before, run, prevOk,
                    executed, concVars, retryVars, singVars, excelVars >>

NextStmt == BuildStmt

SpecStmt == InitStmt /\ [][NextStmt]_vars

(* ------------- _session_scope used by several invocations --------------- *)
\* to_mysql at rest, with fixed arguments
MainFixed ==
    /\ policy = "ignore"
    /\ schema = SchemaOnePk
    /\ pc = "idle"
    /\ MainIdle

\* faulty variant: get_session hands out one cached session
FreshSessionCached(n) == 1

\* Connector.get_session: sessionmaker(bind=self.get_engine())() is a new
\* session on a new engine at every call; sessions are numbered as they are made
FreshSession(n) == n + 1

InitConc ==
    /\ inv \in [Invs -> [thread : Threads, scoped : BOOLEAN, pc : {"idle"},
                          sess : {0}, used : {{}}, scratchOn : {{}}]]
    /\ registry = [i \in Invs |-> [t \in Threads |-> 0]]
    /\ created = 0
    /\ MainFixed
    /\ StmtIdle /\ RetryIdle /\ SingIdle /\ ExcelIdle

Active(i) == inv[i].pc \notin {"idle", "done"}

\* lines 48-51: scoped=False takes a session from get_session at once;
\* scoped=True builds a new scoped_session registry around get_session, which
\* makes no session yet.  A thread runs one invocation at a time.
ScopeEnter(i) ==
    /\ inv[i].pc = "idle"
    /\ \A j \in Invs : Active(j) => inv[j].thread # inv[i].thread
    /\ IF inv[i].scoped
       THEN /\ registry' = [registry EXCEPT ![i] = [t \in Threads |-> 0]]
            /\ inv' = [inv EXCEPT ![i].pc = "create"]
            /\ UNCHANGED created
       ELSE /\ created' = FreshSession(created)
            /\ inv' = [inv EXCEPT ![i].pc = "create",
                                  ![i].sess = FreshSession(created)]
            /\ UNCHANGED registry
    /\ UNCHANGED << mainVars, stmtVars, retryVars, singVars, excelVars >>

\* the session an access through `session` reaches: the plain session, or the
\* registry's session of the calling thread (0 when it has to be made first)
Reached(i) ==
    IF inv[i].scoped THEN registry[i][inv[i].thread] ELSE inv[i].sess

\* session.connection(), session.query(), session.execute(), session.commit(),
\* session.close(): each goes through `session`; a scoped_session makes the
\* thread's session on first use.  `from` -> `to` is the step of to_mysql.
ScopeAccess(i, from, to) ==
    /\ inv[i].pc = from
    /\ LET sid == IF Reached(i) = 0 THEN FreshSession(created) ELSE Reached(i)
       IN  /\ created' = IF Reached(i) = 0 THEN FreshSession(created) ELSE created
           /\ registry' = IF inv[i].scoped
                           THEN [registry EXCEPT ![i][inv[i].thread] = sid]
                           ELSE registry
           /\ inv' = [inv EXCEPT
                        ![i].pc = to,
                        ![i].used = @ \cup {sid},
                        ![i].scratchOn = IF from = "create" THEN @ \cup {sid} ELSE @]
    /\ UNCHANGED << mainVars, stmtVars, retryVars, singVars, excelVars >>

\* temp_table.__table__.create(bind=session.connection(), ...)
ScopeCreate == \E i \in Invs : ScopeAccess(i, "create", "load")
\* df.to_sql(..., con=session.connection(), ...)
ScopeLoad == \E i \in Invs : ScopeAccess(i, "load", "merge")
\* session.query(*column_list), session.execute(stmt)
ScopeMerge == \E i \in Invs : ScopeAccess(i, "merge", "exit")
\* session.commit(); session.close()
ScopeExit == \E i \in Invs : ScopeAccess(i, "exit", "done")
ScopeStart == \E i \in Invs : ScopeEnter(i)

NextConc ==
    \/ ScopeStart
    \/ ScopeCreate
    \/ ScopeLoad
    \/ ScopeMerge
    \/ ScopeExit

SpecConc == InitConc /\ [][NextConc]_vars

(* ------------------------------ Retry ----------------------------------- *)
\* what one call of the wrapped function does: return, raise one of
\* self.errors, or raise something else
Outcomes == {"ok", "err", "other"}

Pending == [kind |-> "pending", call |-> 0]
\* `return None`, written or implicit
ReturnedNone == [kind |-> "None", call |-> 0]
\* the value the n-th call of wrapped returned
ReturnedValue(n) == [kind |-> "value", call |-> n]
\* the exception the n-th call of wrapped raised, not caught
Propagated(n) == [kind |-> "raised", call |-> n]

InitRetry ==
    /\ rTimes \in 0..MaxRetry
    /\ plan \in [1..MaxRetry -> Outcomes]
    /\ rpc = "for"
    /\ iter = 0
    /\ calls = 0
    /\ rResult = Pending
    /\ MainFixed
    /\ StmtIdle /\ ConcIdle /\ SingIdle /\ ExcelIdle

\* for _ in range(self.retry_times): next iteration
RetryFor ==
    /\ rpc = "for"
    /\ iter < rTimes
    /\ iter' = iter + 1
    /\ rpc' = "try"
    /\ UNCHANGED << rTimes, plan, calls, rResult >>
    /\ UNCHANGED << mainVars, stmtVars, concVars, singVars, excelVars >>

\* the range is used up: __call__ falls off its end
RetryExhausted ==
    /\ rpc = "for"
    /\ iter >= rTimes
    /\ rResult' = ReturnedNone
    /\ rpc' = "done"
    /\ UNCHANGED << rTimes, plan, iter, calls >>
    /\ UNCHANGED << mainVars, stmtVars, concVars, singVars, excelVars >>

\* try: return wrapped(*args, **kwargs) / except self.errors
RetryCall ==
    /\ rpc = "try"
    /\ calls' = calls + 1
    /\ CASE plan[calls + 1] = "ok" ->
              rResult' = ReturnedValue(calls + 1) /\ rpc' = "done"
         [] plan[calls + 1] = "err" ->
              rResult' = rResult /\ rpc' = "except"
         [] OTHER ->
              rResult' = Propagated(calls + 1) /\ rpc' = "done"
    /\ UNCHANGED << rTimes, plan, iter >>
    /\ UNCHANGED << mainVars, stmtVars, concVars, singVars, excelVars >>

\* print(e); time.sleep((random.random() + 1) * self.wait_secs)
RetrySleep ==
    /\ rpc = "except"
    /\ rpc' = "after"
    /\ UNCHANGED << rTimes, plan, iter, calls, rResult >>
    /\ UNCHANGED << mainVars, stmtVars, concVars, singVars, excelVars >>

\* the statement after the try statement, inside the loop body: return None
RetryReturnNone ==
    /\ rpc = "after"
    /\ rResult' = ReturnedNone
    /\ rpc' = "done"
    /\ UNCHANGED << rTimes, plan, iter, calls >>
    /\ UNCHANGED << mainVars, stmtVars, concVars, singVars, excelVars >>

NextRetry ==
    \/ RetryFor
    \/ RetryExhausted
    \/ RetryCall
    \/ RetrySleep
    \/ RetryReturnNone

SpecRetry == InitRetry /\ [][NextRetry]_vars

(* ---------------------------- Singleton --------------------------------- *)
InitSingleton ==
    /\ spc \in [Callers -> {"idle", "check"}]
    /\ lockHolder = 0
    /\ instance = 0
    /\ built = 0
    /\ ret = [t \in Callers |-> 0]
    /\ MainFixed
    /\ StmtIdle /\ ConcIdle /\ RetryIdle /\ ExcelIdle

\* if wrapped not in self._instance:   (read without the lock)
SingCheck(t) ==
    /\ spc[t] = "check"
    /\ spc' = [spc EXCEPT ![t] = IF instance = 0 THEN "acquire" ELSE "return"]
    /\ UNCHANGED << lockHolder, instance, built, ret >>
    /\ UNCHANGED << mainVars, stmtVars, concVars, retryVars, excelVars >>

\* with self.lock:   (enter)
SingAcquire(t) ==
    /\ spc[t] = "acquire"
    /\ lockHolder = 0
    /\ lockHolder' = t
    /\ spc' = [spc EXCEPT ![t] = "construct"]
    /\ UNCHANGED << instance, built, ret >>
    /\ UNCHANGED << mainVars, stmtVars, concVars, retryVars, excelVars >>

\* self._instance[wrapped] = wrapped(): instances are numbered as they are built
SingConstruct(t) ==
    /\ spc[t] = "construct"
    /\ built' = built + 1
    /\ instance' = built + 1
    /\ spc' = [spc EXCEPT ![t] = "release"]
    /\ UNCHANGED << lockHolder, ret >>
    /\ UNCHANGED << mainVars, stmtVars, concVars, retryVars, excelVars >>

\* with self.lock:   (exit)
SingRelease(t) ==
    /\ spc[t] = "release"
    /\ lockHolder' = 0
    /\ spc' = [spc EXCEPT ![t] = "return"]
    /\ UNCHANGED << instance, built, ret >>
    /\ UNCHANGED << mainVars, stmtVars, concVars, retryVars, excelVars >>

\* return self._instance[wrapped]
SingReturn(t) ==
    /\ spc[t] = "return"
    /\ ret' = [ret EXCEPT ![t] = instance]
    /\ spc' = [spc EXCEPT ![t] = "done"]
    /\ UNCHANGED << lockHolder, instance, built >>
    /\ UNCHANGED << mainVars, stmtVars, concVars, retryVars, excelVars >>

NextSingleton ==
    \/ \E t \in Callers : SingCheck(t)
    \/ \E t \in Callers : SingAcquire(t)
    \/ \E t \in Callers : SingConstruct(t)
    \/ \E t \in Callers : SingRelease(t)
    \/ \E t \in Callers : SingReturn(t)

SpecSingleton == InitSingleton /\ [][NextSingleton]_vars

(* -------------------------- better_to_excel ----------------------------- *)
\* largest len(df)
MaxDfLen == 9
\* the largest rows_per_sheet accepted, 1,000,000 scaled down
SheetLimit == 4

\* round(n / r, 0) of Python 3: to the nearest integer, a half to the even one
RoundHalfEven(n, r) ==
    LET q == n \div r
        m == n % r
    IN  IF 2 * m < r THEN q
        ELSE IF 2 * m > r THEN q + 1
        ELSE IF q % 2 = 0 THEN q ELSE q + 1

\* total_sheet_num = int(round(len(df) / rows_per_sheet, 0) + 1)
TotalSheetNum(n, r) == RoundHalfEven(n, r) + 1

\* df.iloc[i * r : i * r + r, :] as positions 1..n of df; a slice past the end
\* is cut short or empty
Slice(n, r, i) == { k \in 1..n : i * r < k /\ k <= i * r + r }

\* one to_excel call on the writer: the sheet and the rows of df it holds
Sheet(split, part, rows) == [split |-> split, part |-> part, rows |-> rows]

InitExcel ==
    /\ xLen \in 0..MaxDfLen
    /\ xRps \in (0 - 1)..(SheetLimit + 1)
    /\ xSheetName \in BOOLEAN
    /\ xExists \in BOOLEAN
    /\ xMode \in {"a", "w"}
    /\ xpc = "call"
    /\ xTotal = 0
    /\ xi = 0
    /\ sheets = << >>
    /\ xErr = "none"
    /\ MainFixed
    /\ StmtIdle /\ ConcIdle /\ RetryIdle /\ SingIdle

\* the two checks of rows_per_sheet
XlValidate ==
    /\ xpc = "call"
    /\ IF xRps < 0 \/ xRps > SheetLimit
       THEN xErr' = "ValueError" /\ xpc' = "done"
       ELSE xErr' = xErr /\ xpc' = "count"
    /\ UNCHANGED << xLen, xRps, xSheetName, xExists, xMode, xTotal, xi, sheets >>
    /\ UNCHANGED << mainVars, stmtVars, concVars, retryVars, singVars >>

\* total_sheet_num = ...; the division raises when rows_per_sheet is 0
XlCount ==
    /\ xpc = "count"
    /\ IF xRps = 0
       THEN xErr' = "ZeroDivisionError" /\ xpc' = "done" /\ xTotal' = xTotal
       ELSE xErr' = xErr /\ xpc' = "prepare" /\ xTotal' = TotalSheetNum(xLen, xRps)
    /\ UNCHANGED << xLen, xRps, xSheetName, xExists, xMode, xi, sheets >>
    /\ UNCHANGED << mainVars, stmtVars, concVars, retryVars, singVars >>

\* if not os.path.exists(pathname): an empty workbook is written, which the
\* writer opened with mode 'w' then replaces
XlPrepare ==
    /\ xpc = "prepare"
    /\ xExists' = TRUE
    /\ xMode' = IF xExists THEN xMode ELSE "w"
    /\ xpc' = "write"
    /\ UNCHANGED << xLen, xRps, xSheetName, xTotal, xi, sheets, xErr >>
    /\ UNCHANGED << mainVars, stmtVars, concVars, retryVars, singVars >>

\* if total_sheet_num == 1: df.to_excel(excel_writer=writer, **kwargs)
XlWriteSingle ==
    /\ xpc = "write"
    /\ xTotal = 1
    /\ sheets' = Append(sheets, Sheet(FALSE, 0, 1..xLen))
    /\ xpc' = "done"
    /\ UNCHANGED << xLen, xRps, xSheetName, xExists, xMode, xTotal, xi, xErr >>
    /\ UNCHANGED << mainVars, stmtVars, concVars, retryVars, singVars >>

\* one iteration of for i in range(total_sheet_num): with 'sheet_name' in
\* kwargs, to_excel is given sheet_name twice and the call raises TypeError
XlWriteSplit ==
    /\ xpc = "write"
    /\ xTotal > 1
    /\ xi < xTotal
    /\ IF xSheetName
       THEN /\ xErr' = "TypeError"
            /\ xpc' = "done"
            /\ UNCHANGED << xi, sheets >>
       ELSE /\ sheets' = Append(sheets, Sheet(TRUE, xi, Slice(xLen, xRps, xi)))
            /\ xi' = xi + 1
            /\ UNCHANGED << xErr, xpc >>
    /\ UNCHANGED << xLen, xRps, xSheetName, xExists, xMode, xTotal >>
    /\ UNCHANGED << mainVars, stmtVars, concVars, retryVars, singVars >>

\* the range is used up: the with block ends and the workbook is saved
XlSave ==
    /\ xpc = "write"
    /\ xTotal > 1
    /\ xi >= xTotal
    /\ xpc' = "done"
    /\ UNCHANGED << xLen, xRps, xSheetName, xExists, xMode, xTotal, xi, sheets, xErr >>
    /\ UNCHANGED << mainVars, stmtVars, concVars, retryVars, singVars >>

NextExcel ==
    \/ XlValidate
    \/ XlCount
    \/ XlPrepare
    \/ XlWriteSingle
    \/ XlWriteSplit
    \/ XlSave

SpecExcel == InitExcel /\ [][NextExcel]_vars

(* ====================== properties of the code ========================= *)
CountOp(name) == Cardinality({i \in DOMAIN log : log[i].op = name})
Logged(name, ok) == \E i \in DOMAIN log : log[i] = Op(name, ok)
Invoked(name) == \E i \in DOMAIN log : log[i].op = name
PosOf(name) == CHOOSE i \in DOMAIN log : log[i].op = name
BodyOps == {"create", "chunk", "merge"}

\* exceptions (subclasses of Exception) that a statement of the scope raises
ScopeErrors == {"CreateError", "TableExists", "LoadError", "UnknownColumn", "MergeError",
                "CommitError"}
\* the call went through the scoped session and has returned to the caller
ScopeDone == pc = "done" /\ log # << >>

\* C1: a scope whose body finishes without raising and whose commit succeeds
\* has commit invoked exactly once, after every operation of the body, and
\* never has rollback invoked.
C1_CommitOnceNoRollback ==
    /\ (Logged("merge", TRUE) /\ pc \in {"finally", "done"} /\ err = "none")
         => /\ CountOp("commit") = 1
            /\ \A i \in DOMAIN log : log[i].op \in BodyOps => i < PosOf("commit")
            /\ CountOp("rollback") = 0
    /\ Logged("commit", TRUE) => CountOp("commit") = 1 /\ ~Invoked("rollback")

C1_Witness ==
    /\ ScopeDone /\ err = "none" /\ Logged("commit", TRUE)
    /\ CountOp("chunk") = 2

\* C2 as stated: whenever an error is raised inside the scope, rollback is
\* invoked before the error reaches the caller, no commit succeeded, and the
\* caller receives the error that was raised.
C2_Original ==
    (ScopeDone /\ raised \in ScopeErrors)
      => /\ CountOp("rollback") = 1
         /\ PosOf("rollback") < PosOf("close")
         /\ ~Logged("commit", TRUE)
         /\ err = raised

\* C2 amended: as stated, except that when rollback itself raises the caller
\* receives the rollback's error instead of the one first raised.
C2_RollbackThenReraise ==
    (ScopeDone /\ raised \in ScopeErrors)
      => /\ CountOp("rollback") = 1
         /\ PosOf("rollback") < PosOf("close")
         /\ \A i \in DOMAIN log : log[i].op \in BodyOps \cup {"commit"}
                                    => i < PosOf("rollback")
         /\ ~Logged("commit", TRUE)
         /\ err = IF Logged("rollback", TRUE) THEN raised ELSE "RollbackError"

C2_Witness ==
    /\ ScopeDone /\ raised = "CommitError" /\ err = "CommitError"
    /\ Logged("rollback", TRUE)

\* C3: on every exit path of the scope close is invoked exactly once, it is
\* the last operation on the session, and no scope ends with the session open.
C3_ClosedOnEveryPath ==
    /\ ScopeDone => /\ CountOp("close") = 1
                    /\ log[Len(log)].op = "close"
    /\ pc \in {"done", "call", "enter"} => ~sessionOpen
    /\ Invoked("close") => log[Len(log)].op = "close"

C3_Witness ==
    ScopeDone /\ Logged("rollback", FALSE) /\ ~sessionOpen /\ CountOp("close") = 1

\* the scratch rows a complete load of df produces, and the target they merge to
FullScratch == [i \in 1..Len(df) |-> ScratchRow(df[i], dfCols)]
Merged == Execute(MyInsertStmt(schema, policy), before, FullScratch, hasUnique)

\* C4: a call that fails at scratch creation, at a load chunk or at the merge
\* leaves the committed target as it was before the call; the committed target
\* is never anything but the old content or the complete, committed merge.
C4_FailureLeavesTarget ==
    /\ (pc = "done" /\ raised \in {"CreateError", "LoadError", "UnknownColumn",
                                   "MergeError"})
         => target = before
    /\ target # before => /\ Logged("commit", TRUE)
                          /\ target = Merged

C4_Witness ==
    /\ pc = "done" /\ raised = "LoadError" /\ CountOp("chunk") = 2
    /\ target = before /\ Merged # before

Rank(name) ==
    CASE name = "open" -> 1 [] name = "create" -> 2 [] name = "chunk" -> 3
      [] name = "merge" -> 4 [] name = "commit" -> 5 [] name = "rollback" -> 6
      [] name = "close" -> 7

\* C5: the operations of one call occur in the order open, create, chunks,
\* merge, commit, close; a step starts only after the previous one succeeded;
\* the merge runs only after creation and every chunk of df succeeded.
C5_StepOrder ==
    /\ log # << >> => log[1] = Op("open", TRUE)
    /\ \A i, j \in DOMAIN log :
         i < j => /\ Rank(log[i].op) <= Rank(log[j].op)
                  /\ Rank(log[i].op) = Rank(log[j].op) => log[i].op = "chunk"
    /\ \A i \in DOMAIN log :
         (i < Len(log) /\ log[i + 1].op \in BodyOps \cup {"commit"}) => log[i].ok
    /\ Invoked("merge") =>
         /\ Logged("create", TRUE)
         /\ ~Logged("chunk", FALSE)
         /\ CountOp("chunk") = (Len(df) + ChunkSize - 1) \div ChunkSize
         /\ loaded = Len(df)
    /\ Invoked("commit") => Logged("merge", TRUE)
    /\ pc = "merge" => scratch = FullScratch

C5_Witness ==
    /\ ScopeDone /\ err = "none" /\ Len(log) = 7 /\ CountOp("chunk") = 2
    /\ Len(df) = MaxBatch

KeysOf(t) == {t[i].k : i \in DOMAIN t}
\* the documented scratch schema: exactly one primary-key column
ValidSchema == Len(PkList(schema)) = 1
IsPrefix(a, b) == Len(a) <= Len(b) /\ \A i \in DOMAIN a : b[i] = a[i]
Succeeded == ScopeDone /\ err = "none"

C7_Original ==
    (Succeeded /\ policy = "update" /\ hasUnique /\ ValidSchema)
      => \A i \in DOMAIN df :
           LET r == ScratchRow(df[i], dfCols) IN
           IF r.k \in KeysOf(before)
           THEN \A j \in DOMAIN target : target[j].k = r.k => target[j].v = r.v
           ELSE r.k \in KeysOf(target)

LastOf(kv) ==
    ScratchRow(df[CHOOSE i \in DOMAIN df :
                    /\ df[i].k = kv
                    /\ \A j \in DOMAIN df : df[j].k = kv => j <= i], dfCols)

\* C7 amended: with policy update, after a successful call the target holds,
\* for every unique-index value of the batch, exactly one row, whose non-key
\* columns are those of the last batch row carrying that value (in place when
\* the value existed, appended when it was new); other rows are untouched.
C7_UpdateLastWins ==
    (Succeeded /\ policy = "update" /\ hasUnique)
      => /\ \A kv \in KeysOf(df) :
              /\ Cardinality({j \in DOMAIN target : target[j].k = kv}) = 1
              /\ \A j \in DOMAIN target :
                   target[j].k = kv => target[j] = LastOf(kv)
         /\ \A j \in DOMAIN before :
              /\ target[j].k = before[j].k
              /\ before[j].k \notin KeysOf(df) => target[j] = before[j]
         /\ Len(target) = Len(before) + Cardinality(KeysOf(df) \ KeysOf(before))

C7_Witness ==
    /\ Succeeded /\ policy = "update" /\ hasUnique
    /\ \E i \in DOMAIN df : df[i].k \in KeysOf(before) /\ df[i] \notin Range(before)
    /\ KeysOf(df) \ KeysOf(before) # {}
    /\ target # before

\* C8 as stated: with policy ignore, a second identical call after a successful
\* first one leaves the target as the first call left it.
C8_Original ==
    (Succeeded /\ run = 2 /\ prevOk /\ policy = "ignore" /\ ValidSchema)
      => target = before

\* C8 amended: the same, for a target table that has a unique index whose
\* value every batch row carries.
C8_IgnoreIdempotent ==
    (Succeeded /\ run = 2 /\ prevOk /\ policy = "ignore" /\ hasUnique)
      => target = before

C8_Witness ==
    /\ Succeeded /\ run = 2 /\ prevOk /\ policy = "ignore" /\ hasUnique
    /\ Len(df) > 0 /\ KeysOf(df) = Keys /\ target = before

\* the call went through the scope and no statement failed for a reason other
\* than the batch's columns (no database failure, no interrupt)
NoOtherFailure == ScopeDone /\ raised \in {"none", "UnknownColumn"}

C10_Original ==
    Len(PkList(schema)) # 1
      => /\ ~scratchExists
         /\ (pc = "done" /\ policy \in {"update", "ignore"}) => err = "SchemaError"

\* C11: a conflict policy other than 'update' and 'ignore' makes to_mysql fail
\* with ValueError before a session is opened, a scratch table created or a row
\* loaded, so neither table is touched; _my_insert called directly with such a
\* value raises ValueError without executing a statement.
C11_PolicyRejectedFirst ==
    policy \notin {"update", "ignore"}
      => /\ pc \in {"call", "done", "returned"}
         /\ log = << >>
         /\ ~sessionOpen /\ ~scratchExists
         /\ scratch = << >> /\ loaded = 0
         /\ target = before /\ txTarget = before
         /\ executed = 0
         /\ pc \in {"done", "returned"} => err = "ValueError"

C11_Witness ==
    /\ policy = "replace" /\ pc = "returned" /\ err = "ValueError"
    /\ Len(df) = MaxBatch /\ Merged # before /\ executed = 0

Min(a, b) == IF a < b THEN a ELSE b
OkChunks == Cardinality({i \in DOMAIN log : log[i] = Op("chunk", TRUE)})

\* C14: a batch of n rows is loaded in exactly ceil(n / chunksize) chunks, each
\* of at most chunksize rows, and all n rows are in the scratch table when the
\* merge statement runs (with chunksize rows per chunk, 2.5 chunks of rows
\* make 3 chunks).
C14_ChunkCount ==
    /\ loaded = Min(OkChunks * ChunkSize, Len(df))
    /\ sessionOpen => Len(scratch) = loaded
    /\ pc = "merge" => scratch = FullScratch
    /\ Invoked("merge") =>
         /\ CountOp("chunk") = (Len(df) + ChunkSize - 1) \div ChunkSize
         /\ OkChunks = CountOp("chunk")

C14_Witness ==
    /\ Len(df) = 2 * ChunkSize + 1 /\ CountOp("chunk") = 3
    /\ Logged("merge", TRUE) /\ pc = "commit" /\ scratch = FullScratch

\* ways the body of the scope is aborted
BodyAborts == {"CreateError", "TableExists", "LoadError", "UnknownColumn",
               "MergeError", "KeyboardInterrupt"}

\* C15: however the caller aborts inside the body of the scope (an error, an
\* interrupt), rollback runs before the scope exits and the target is unchanged.
C15_Original ==
    (ScopeDone /\ raised \in BodyAborts)
      => /\ Invoked("rollback")
         /\ target = before

\* C18: when a table of the scratch table's name already exists, creation fails
\* with an error instead of reusing the table, no row is loaded, no merge runs
\* and the target is unchanged.
C18_ExistingScratchFails ==
    preexisting
      => /\ ~scratchExists
         /\ ~Logged("create", TRUE)
         /\ Invoked("create") => raised = "TableExists"
         /\ ~Invoked("chunk") /\ loaded = 0 /\ scratch = << >>
         /\ ~Invoked("merge")
         /\ target = before
         /\ (ScopeDone /\ raised # "KeyboardInterrupt")
              => raised = "TableExists" /\ err \in {"TableExists", "RollbackError"}

C18_Witness ==
    /\ preexisting /\ ScopeDone /\ err = "TableExists"
    /\ Len(df) = MaxBatch /\ Merged # before /\ target = before

Built == pc = "built" /\ err = "none"
ColByName(sch, n) == CHOOSE c \in Range(sch) : c.name = n
NonPk(sch) == SelectSeqOf(sch, {c \in Range(sch) : ~c.pk})

C16_Original ==
    \A i, j \in Invs :
      (i # j /\ inv[i].pc = "done" /\ inv[j].pc = "done")
        => /\ (inv[i].scoped /\ inv[j].scoped /\ inv[i].thread = inv[j].thread)
                => inv[i].used = inv[j].used
           /\ inv[i].thread # inv[j].thread => inv[i].used \cap inv[j].used = {}
           /\ ~inv[i].scoped => inv[i].used \cap inv[j].used = {}

\* C17: whatever the interleaving, an invocation uses exactly one session and
\* one scratch table for its whole lifetime, and two running invocations never
\* use the same session or scratch table.
C17_OneSessionEach ==
    /\ \A i \in Invs :
         /\ Cardinality(inv[i].used) <= 1
         /\ Cardinality(inv[i].scratchOn) <= 1
         /\ inv[i].scratchOn \subseteq inv[i].used
         /\ inv[i].pc \in {"load", "merge", "exit", "done"}
              => Cardinality(inv[i].used) = 1 /\ inv[i].scratchOn = inv[i].used
    /\ \A i, j \in Invs :
         (i # j /\ Active(i) /\ Active(j))
           => inv[i].used \cap inv[j].used = {}

C17_Witness ==
    \E i, j \in Invs :
      /\ i # j /\ inv[i].scoped /\ inv[j].scoped
      /\ inv[i].pc = "merge" /\ inv[j].pc = "merge"
      /\ inv[i].used # {} /\ inv[j].used # {}

\* the first call that does not raise one of the configured errors, among the
\* retry_times calls allowed (0 when all of them raise a configured error)
FirstSettled(n) ==
    IF \E k \in 1..n : plan[k] # "err"
    THEN CHOOSE k \in 1..n : plan[k] # "err" /\ \A m \in 1..(k - 1) : plan[m] = "err"
    ELSE 0

\* C19: a function raising a configured error is called again, up to
\* retry_times calls in total, and the first successful call's result is
\* returned; with retry_times >= 2, fail-then-succeed returns the second call's
\* result.
C19_Original ==
    rpc = "done" =>
      LET k == FirstSettled(rTimes)
      IN  /\ k = 0 => calls = rTimes
          /\ (k > 0 /\ plan[k] = "ok") => calls = k /\ rResult = ReturnedValue(k)

\* C20: whatever the interleaving of the calling threads, the constructor runs
\* at most once and every call returns the same instance.
C20_Original ==
    /\ built <= 1
    /\ \A t, u \in Callers :
         (spc[t] = "done" /\ spc[u] = "done") => ret[t] = ret[u]

\* C21: under policy update the update clause names every non-key column of
\* the scratch schema; after a successful call with a batch that omits the
\* non-key column v, every target row that a batch row collided with has v
\* rewritten to the scratch table's unset value, not its previous value.
C21_OmittedColumnRewritten ==
    (Succeeded /\ policy = "update" /\ "v" \notin dfCols)
      => /\ MyInsertStmt(schema, policy).updateCols
              = { KeyOf(schema[i]) : i \in { n \in DOMAIN schema : ~schema[n].pk } }
         /\ \A j \in DOMAIN before :
              (hasUnique /\ before[j].k \in KeysOf(df))
                => target[j].k = before[j].k /\ target[j].v = NULL

C21_Witness ==
    /\ Succeeded /\ policy = "update" /\ "v" \notin dfCols /\ hasUnique
    /\ \E j \in DOMAIN before :
         /\ before[j].k \in KeysOf(df)
         /\ before[j].v # NULL
         /\ target[j].v = NULL

\* C22: better_to_excel writes a single sheet whenever len(df) does not exceed
\* rows_per_sheet and several sheets only when df has more rows than that; in
\* every case each row of df is in exactly one sheet and no sheet holds more
\* than rows_per_sheet rows.
C22_Original ==
    (xpc = "done" /\ xErr = "none")
      => /\ xLen <= xRps => Len(sheets) = 1
         /\ Len(sheets) > 1 => xLen > xRps
         /\ \A k \in 1..xLen :
              Cardinality({ i \in DOMAIN sheets : k \in sheets[i].rows }) = 1
         /\ \A i \in DOMAIN sheets : Cardinality(sheets[i].rows) <= xRps

====
